---- MODULE Spec2Model ----
(***************************************************************************)
(* Monety: the auth context (AuthProvider: register, login, logout,        *)
(* refreshUser, the onAuthStateChanged effect and its onSnapshot           *)
(* listener), AppContent's render gate and LoginPage.handleSubmit, over    *)
(* the vendor's auth service and document database.                        *)
(*                                                                         *)
(* Every async function is cut at its awaits: one action per resumption.   *)
(* The vendor is modelled by what the client observes of it: accounts,     *)
(* the signed-in session, documents. The vendor runs its sign-in, sign-up  *)
(* and sign-out after it has restored the persisted session and told the   *)
(* observers, and it tells the observers of a change of the signed-in user *)
(* before the promise of the operation that made it resolves: the part of  *)
(* the onAuthStateChanged callback up to its first await belongs to the    *)
(* step of that operation.                                                 *)
(* Passwords are passed through to the vendor untouched and never looked   *)
(* at by the client, so the outcome of a sign-in is the vendor's choice.   *)
(* Database reads are taken to succeed whoever is signed in (the security  *)
(* rules are not part of the client). All calls are those of one client;   *)
(* register and refreshUser may be called at any time, handleSubmit while  *)
(* the login page renders, logout from the shell's button.                 *)
(***************************************************************************)
EXTENDS Integers, Sequences, FiniteSets, TLC

\* ------------------------------------------------------------------ bounds
MaxCalls == 2        \* calls of the context's functions in one run
NumProcs == 2        \* calls that can be in flight at once
CodeLen == 1         \* random characters after the 'MP' prefix (6 in the code)

\* --------------------------------------------------------------- constants
MaxAttempts == 10    \* generateUniqueInviteCode: attempts < 10
NoUid == 0           \* null / undefined where a uid is expected

Chars == {"A", "B"}                  \* the alphabet generateInviteCode draws from
Emails == {"a@x", "b@x"}
Procs == 1..NumProcs
UIDs == 1..(MaxCalls + 1)            \* one account at startup, one more per call

Null == <<>>                          \* null for user, token and errors
Undefined == "undefined"
Some(x) == <<x>>

\* ------------------------------------------------------------ pure helpers
\* JavaScript truthiness of a string / optional object held as a sequence
Truthy(v) == v # <<>>

\* String.prototype.toUpperCase on one character
UpperChar(c) ==
  CASE c = "a" -> "A"
    [] c = "b" -> "B"
    [] c = "m" -> "M"
    [] c = "p" -> "P"
    [] OTHER -> c

toUpperCase(s) == [i \in DOMAIN s |-> UpperChar(s[i])]

\* generateInviteCode: 'MP' followed by random characters of chars
InviteCodes == { <<"M", "P">> \o s : s \in [1..CodeLen -> Chars] }

\* what a registrant may pass as inviteCode: nothing, a code as generated, a
\* code typed in lower case, or a well-formed code over a character no code
\* is generated from
InviteInputs ==
  {<<>>} \cup InviteCodes
         \cup { <<"m", "p">> \o s : s \in [1..CodeLen -> {"a", "b"}] }
         \cup { <<"M", "P">> \o [i \in 1..CodeLen |-> "Z"] }

\* an ID token of the vendor for uid
IdToken(uid) == <<"idToken", uid>>

\* new Error(message): no code property
NewError(msg) == [code |-> <<Undefined>>, message |-> msg]
\* an error of the vendor SDK: code and 'Firebase: Error (<code>).'
VendorError(kind) ==
  [code |-> <<"auth/", kind>>,
   message |-> <<"Firebase:", "Error", "(", "auth/", kind, ")", ".">>]
AuthCode(kind) == <<"auth/", kind>>
FirestoreError == [code |-> <<"unavailable">>, message |-> <<"Firebase:", "unavailable">>]
TypeError == NewError(<<"Cannot", "read", "properties", "of", "null">>)

\* String.prototype.includes on a message held as a sequence of tokens
Includes(msg, w) == \E i \in DOMAIN msg : msg[i] = w

\* -------------------------------------------------------------------- state
VARIABLES
  accounts,     \* vendor auth: sequence of e-mails, the uid is the index
  currentUser,  \* auth.currentUser: a uid or NoUid
  cbPending,    \* onAuthStateChanged callbacks awaiting getIdToken, by uid
  users,        \* collection 'users': uid -> document
  invites,      \* collection 'invites': the documents in the order written
  listeners,    \* uids whose document has an onSnapshot listener
  snapPending,  \* listeners with a snapshot not yet delivered
  user,         \* useState: user
  token,        \* useState: token
  calls,        \* the calls in flight: their position and locals, and for a
                \* failed call what was thrown inside it (rejected) and out of it
  nCalls,       \* calls started so far
  formError,    \* LoginPage: error
  formLoading,  \* LoginPage: loading
  authChecked,  \* the vendor restored the session and the effect's callback ran on it
  loggedOut     \* history: a logout completed and no login/register was called since

vars == <<accounts, currentUser, cbPending, users, invites, listeners,
          snapPending, user, token, calls, nCalls, formError, formLoading,
          authChecked, loggedOut>>

vendorVars == <<accounts, currentUser>>
dbVars == <<users, invites>>
formVars == <<formError, formLoading>>

Idle ==
  [op |-> "none", pc |-> "idle", email |-> "", inviteCode |-> <<>>,
   inviterUid |-> NoUid, uid |-> NoUid, code |-> <<>>, attempts |-> 0,
   queries |-> 0, rejected |-> Null, error |-> Null]

Returned(p) == calls[p].pc \in {"idle", "done", "failed"}

\* a call takes the first slot whose call has returned
Free(p) == Returned(p) /\ \A q \in Procs : q < p => ~Returned(q)

\* a user document as register writes it
UserDoc(email, code, inviterUid) ==
  [email |-> email, balance |-> 0, inviteCode |-> code,
   invitedBy |-> inviterUid, totalEarned |-> 0, totalWithdrawn |-> 0,
   role |-> "user"]

\* { id: uid, email: ..., ...doc.data() }
UserOf(uid, d) ==
  [id |-> uid, email |-> d.email, balance |-> d.balance,
   inviteCode |-> d.inviteCode, invitedBy |-> d.invitedBy,
   totalEarned |-> d.totalEarned, totalWithdrawn |-> d.totalWithdrawn,
   role |-> d.role]

\* query(users, where('inviteCode', '==', code)): the ids of the matches
UsersWithCode(code) == { u \in DOMAIN users : users[u].inviteCode = code }

\* checkInviteCodeExists
checkInviteCodeExists(code) == UsersWithCode(code) # {}

\* the database and session the app may start on: an empty project, or one
\* registered user whose session may have been persisted
InitWorlds ==
  { [accounts |-> <<>>, users |-> <<>>, session |-> NoUid] } \cup
  { [accounts |-> <<"a@x">>,
     users |-> (1 :> UserDoc("a@x", <<"M", "P">> \o [i \in 1..CodeLen |-> "A"], NoUid)),
     session |-> s] : s \in {NoUid, 1} }

Init ==
  \E w \in InitWorlds :
    /\ accounts = w.accounts
    /\ users = w.users
    /\ currentUser = w.session
    /\ cbPending = {}
    /\ invites = <<>>
    /\ listeners = {}
    /\ snapPending = {}
    /\ user = Null
    /\ token = Null
    /\ calls = [p \in Procs |-> Idle]
    /\ nCalls = 0
    /\ formError = ""
    /\ formLoading = FALSE
    /\ authChecked = FALSE
    /\ loggedOut = FALSE

\* the vendor tells onAuthStateChanged that uid signed in, when that is a
\* change: the callback starts and awaits getIdToken
Notified(uid) == IF uid # currentUser THEN cbPending \cup {uid} ELSE cbPending

\* ------------------------------------------------------------------ register
InvalidInviteMsg == <<"Código", "de", "convite", "inválido">>
EmailInUseMsg == <<"Email", "já", "cadastrado">>

\* a catch block that reports every failure as a taken e-mail
RegisterCatchAll(err) == NewError(EmailInUseMsg)

\* a catch block that maps nothing
RegisterCatchNone(err) == err

\* register's catch block
RegisterCatch(err) ==
  IF err.code = AuthCode("email-already-in-use") THEN NewError(EmailInUseMsg) ELSE err

\* the call ends by throwing err out of the try block
RegisterThrow(p, err) ==
  calls' = [calls EXCEPT ![p].pc = "failed", ![p].rejected = Some(err),
                         ![p].error = Some(RegisterCatch(err)),
                         ![p].attempts = 0, ![p].queries = 0]

\* register(email, password, inviteCode) up to createUserWithEmailAndPassword:
\* the invite code, when given, is looked up upper-cased
RegisterCall(p, email, inviteCode) ==
  /\ Free(p)
  /\ nCalls < MaxCalls
  /\ nCalls' = nCalls + 1
  /\ loggedOut' = FALSE
  /\ LET c == [Idle EXCEPT !.op = "register", !.email = email,
                           !.inviteCode = inviteCode]
         m == UsersWithCode(toUpperCase(inviteCode))
     IN IF Truthy(inviteCode)
        THEN IF m = {}
             THEN calls' = [calls EXCEPT ![p] =
                     [c EXCEPT !.pc = "failed",
                               !.rejected = Some(NewError(InvalidInviteMsg)),
                               !.error = Some(RegisterCatch(NewError(InvalidInviteMsg)))]]
             ELSE \E i \in m :
                    calls' = [calls EXCEPT ![p] =
                       [c EXCEPT !.pc = "create", !.inviterUid = i]]
        ELSE calls' = [calls EXCEPT ![p] = [c EXCEPT !.pc = "create"]]
  /\ UNCHANGED <<vendorVars, cbPending, dbVars, listeners, snapPending, user, token,
                 formVars, authChecked>>

\* createUserWithEmailAndPassword resolves: the vendor creates the account and
\* signs it in
RegisterCreate(p) ==
  /\ calls[p].op = "register" /\ calls[p].pc = "create"
  /\ authChecked
  /\ \A i \in DOMAIN accounts : accounts[i] # calls[p].email
  /\ LET uid == Len(accounts) + 1
     IN /\ accounts' = Append(accounts, calls[p].email)
        /\ currentUser' = uid
        /\ cbPending' = Notified(uid)
        /\ calls' = [calls EXCEPT ![p].pc = "token", ![p].uid = uid]
  /\ UNCHANGED <<dbVars, listeners, snapPending, user, token, nCalls,
                 formVars, authChecked, loggedOut>>

\* createUserWithEmailAndPassword rejects
RegisterCreateFails(p) ==
  /\ calls[p].op = "register" /\ calls[p].pc = "create"
  /\ authChecked
  /\ \E kind \in {"email-already-in-use", "weak-password"} :
       /\ (kind = "email-already-in-use") =>
              \E i \in DOMAIN accounts : accounts[i] = calls[p].email
       /\ RegisterThrow(p, VendorError(kind))
  /\ UNCHANGED <<vendorVars, cbPending, dbVars, listeners, snapPending, user, token,
                 nCalls, formVars, authChecked, loggedOut>>

\* getIdToken resolves: setToken, then generateUniqueInviteCode draws its
\* first candidate
RegisterToken(p) ==
  /\ calls[p].op = "register" /\ calls[p].pc = "token"
  /\ token' = Some(IdToken(calls[p].uid))
  /\ \E c \in InviteCodes :
       calls' = [calls EXCEPT ![p].pc = "gen", ![p].code = c, ![p].attempts = 0,
                              ![p].queries = 0]
  /\ UNCHANGED <<vendorVars, cbPending, dbVars, listeners, snapPending, user, nCalls,
                 formVars, authChecked, loggedOut>>

\* the while condition with the bound off by one
LoopContinuesOnceMore(exists, attempts) == exists /\ attempts <= MaxAttempts

\* the while condition of generateUniqueInviteCode
LoopContinues(exists, attempts) == exists /\ attempts < MaxAttempts

\* one evaluation of the while condition: checkInviteCodeExists resolves, and
\* the loop either draws again or returns the candidate
RegisterGenerate(p) ==
  /\ calls[p].op = "register" /\ calls[p].pc = "gen"
  /\ IF LoopContinues(checkInviteCodeExists(calls[p].code), calls[p].attempts)
     THEN \E c \in InviteCodes :
            calls' = [calls EXCEPT ![p].code = c,
                                   ![p].attempts = calls[p].attempts + 1,
                                   ![p].queries = calls[p].queries + 1]
     ELSE calls' = [calls EXCEPT ![p].pc = "setDoc",
                                 ![p].queries = calls[p].queries + 1]
  /\ UNCHANGED <<vendorVars, cbPending, dbVars, listeners, snapPending, user, token,
                 nCalls, formVars, authChecked, loggedOut>>

\* if (inviterUid)
HasInviter(inviterUid) == inviterUid # NoUid

\* the invite written the wrong way round
InviteDocSwapped(inviterUid, uid) ==
  [inviterId |-> uid, invitedId |-> inviterUid, level |-> 1, status |-> "pending"]

\* the document added to 'invites'
InviteDoc(inviterUid, uid) ==
  [inviterId |-> inviterUid, invitedId |-> uid, level |-> 1, status |-> "pending"]

\* setDoc(doc(db, 'users', uid), ...) resolves; the listeners on that document
\* are due a snapshot
RegisterSetDoc(p) ==
  /\ calls[p].op = "register" /\ calls[p].pc = "setDoc"
  /\ users' = (calls[p].uid :>
                 UserDoc(calls[p].email, calls[p].code, calls[p].inviterUid))
              @@ users
  /\ snapPending' = snapPending \cup (listeners \cap {calls[p].uid})
  /\ calls' = [calls EXCEPT ![p].pc =
                 IF HasInviter(calls[p].inviterUid) THEN "addDoc" ELSE "done",
                              ![p].attempts = 0, ![p].queries = 0]
  /\ UNCHANGED <<vendorVars, cbPending, invites, listeners, user, token, nCalls,
                 formVars, authChecked, loggedOut>>

\* addDoc(collection(db, 'invites'), ...) resolves
RegisterAddDoc(p) ==
  /\ calls[p].op = "register" /\ calls[p].pc = "addDoc"
  /\ invites' = Append(invites, InviteDoc(calls[p].inviterUid, calls[p].uid))
  /\ calls' = [calls EXCEPT ![p].pc = "done"]
  /\ UNCHANGED <<vendorVars, cbPending, users, listeners, snapPending, user, token,
                 nCalls, formVars, authChecked, loggedOut>>

\* another awaited promise rejects: getIdToken, or a read or write of the
\* database
RegisterAwaitFails(p) ==
  /\ calls[p].op = "register" /\ calls[p].pc \in {"token", "gen", "setDoc", "addDoc"}
  /\ RegisterThrow(p, IF calls[p].pc = "token"
                      THEN VendorError("network-request-failed")
                      ELSE FirestoreError)
  /\ UNCHANGED <<vendorVars, cbPending, dbVars, listeners, snapPending, user, token,
                 nCalls, formVars, authChecked, loggedOut>>

Register(p) ==
  \/ \E e \in Emails, ic \in InviteInputs : RegisterCall(p, e, ic)
  \/ RegisterCreate(p)
  \/ RegisterCreateFails(p)
  \/ RegisterToken(p)
  \/ RegisterGenerate(p)
  \/ RegisterSetDoc(p)
  \/ RegisterAddDoc(p)
  \/ RegisterAwaitFails(p)

\* --------------------------------------------------------------------- login
BadLoginMsg == <<"Email", "ou", "senha", "inválidos">>

\* the codes signInWithEmailAndPassword may reject with
SignInErrors ==
  {"invalid-credential", "wrong-password", "user-not-found", "too-many-requests",
   "network-request-failed"}

\* login's catch block
LoginCatch(err) ==
  IF err.code = AuthCode("invalid-credential") \/ err.code = AuthCode("wrong-password")
  THEN NewError(BadLoginMsg)
  ELSE err

\* handleSubmit's catch block: the message put on the form
ErrorMessage(err) ==
  IF err.code = AuthCode("invalid-credential")
       \/ Includes(err.message, "invalid-credential")
  THEN "E-mail ou senha incorretos."
  ELSE IF err.code = AuthCode("user-not-found") THEN "Usuário não encontrado."
  ELSE IF err.code = AuthCode("wrong-password") THEN "Senha incorreta."
  ELSE IF err.code = AuthCode("too-many-requests")
  THEN "Muitas tentativas falhas. Tente novamente mais tarde."
  ELSE "Erro ao fazer login"

\* what useAuth() hands AppContent: the provider's value has no 'loading'
ContextValue == [user |-> user, token |-> token, loading |-> <<>>]

\* AppContent: which of its three returns renders
AppContent(ctx) ==
  IF Truthy(ctx.loading) THEN "loading"
  ELSE IF ~Truthy(ctx.user) /\ ~Truthy(ctx.token) THEN "auth"
  ELSE "shell"

Screen == AppContent(ContextValue)

\* LoginPage.handleSubmit up to the await of login, which has called
\* signInWithEmailAndPassword; the form is there while the auth pages render
\* and its button is disabled while loading
HandleSubmit(p, email) ==
  /\ Free(p)
  /\ nCalls < MaxCalls
  /\ Screen = "auth"
  /\ ~formLoading
  /\ nCalls' = nCalls + 1
  /\ formError' = ""
  /\ formLoading' = TRUE
  /\ loggedOut' = FALSE
  /\ calls' = [calls EXCEPT ![p] = [Idle EXCEPT !.op = "login", !.pc = "signIn",
                                                !.email = email]]
  /\ UNCHANGED <<vendorVars, cbPending, dbVars, listeners, snapPending, user, token,
                 authChecked>>

\* signInWithEmailAndPassword resolves
LoginSignIn(p) ==
  /\ calls[p].op = "login" /\ calls[p].pc = "signIn"
  /\ authChecked
  /\ \E uid \in DOMAIN accounts :
       /\ accounts[uid] = calls[p].email
       /\ currentUser' = uid
       /\ cbPending' = Notified(uid)
       /\ calls' = [calls EXCEPT ![p].pc = "token", ![p].uid = uid]
  /\ UNCHANGED <<accounts, dbVars, listeners, snapPending, user, token,
                 nCalls, formVars, authChecked, loggedOut>>

\* signInWithEmailAndPassword rejects: login's catch, then handleSubmit's
\* catch and finally
LoginSignInFails(p) ==
  /\ calls[p].op = "login" /\ calls[p].pc = "signIn"
  /\ authChecked
  /\ \E kind \in SignInErrors :
       LET thrown == LoginCatch(VendorError(kind))
       IN /\ calls' = [calls EXCEPT ![p].pc = "failed",
                                    ![p].rejected = Some(VendorError(kind)),
                                    ![p].error = Some(thrown)]
          /\ formError' = ErrorMessage(thrown)
          /\ formLoading' = FALSE
  /\ UNCHANGED <<vendorVars, cbPending, dbVars, listeners, snapPending, user, token,
                 nCalls, authChecked, loggedOut>>

\* getIdToken resolves: setToken
LoginToken(p) ==
  /\ calls[p].op = "login" /\ calls[p].pc = "token"
  /\ token' = Some(IdToken(calls[p].uid))
  /\ calls' = [calls EXCEPT ![p].pc = "getDoc"]
  /\ UNCHANGED <<vendorVars, cbPending, dbVars, listeners, snapPending, user, nCalls,
                 formVars, authChecked, loggedOut>>

\* getDoc resolves: setUser when the document exists; handleSubmit's finally
LoginGetDoc(p) ==
  /\ calls[p].op = "login" /\ calls[p].pc = "getDoc"
  /\ user' = IF calls[p].uid \in DOMAIN users
             THEN Some(UserOf(calls[p].uid, users[calls[p].uid]))
             ELSE user
  /\ formLoading' = FALSE
  /\ calls' = [calls EXCEPT ![p].pc = "done"]
  /\ UNCHANGED <<vendorVars, cbPending, dbVars, listeners, snapPending, token, nCalls,
                 formError, authChecked, loggedOut>>

\* getIdToken or getDoc rejects: login's catch, then handleSubmit's catch and
\* finally
LoginAwaitFails(p) ==
  /\ calls[p].op = "login" /\ calls[p].pc \in {"token", "getDoc"}
  /\ LET err == IF calls[p].pc = "token"
                THEN VendorError("network-request-failed")
                ELSE FirestoreError
     IN /\ calls' = [calls EXCEPT ![p].pc = "failed", ![p].rejected = Some(err),
                                  ![p].error = Some(LoginCatch(err))]
        /\ formError' = ErrorMessage(LoginCatch(err))
        /\ formLoading' = FALSE
  /\ UNCHANGED <<vendorVars, cbPending, dbVars, listeners, snapPending, user, token,
                 nCalls, authChecked, loggedOut>>

Login(p) ==
  \/ \E e \in Emails : HandleSubmit(p, e)
  \/ LoginSignIn(p)
  \/ LoginSignInFails(p)
  \/ LoginToken(p)
  \/ LoginGetDoc(p)
  \/ LoginAwaitFails(p)

\* -------------------------------------------------------------------- logout
\* logout up to the await of firebaseSignOut; it is the onClick of the
\* shell's 'Sair' button
LogoutCall(p) ==
  /\ Free(p)
  /\ nCalls < MaxCalls
  /\ Screen = "shell"
  /\ nCalls' = nCalls + 1
  /\ calls' = [calls EXCEPT ![p] = [Idle EXCEPT !.op = "logout", !.pc = "signOut"]]
  /\ UNCHANGED <<vendorVars, cbPending, dbVars, listeners, snapPending, user, token,
                 formVars, authChecked, loggedOut>>

\* firebaseSignOut resolves: the callback's signed-out branch, when a user
\* was signed in, and logout itself both setUser(null) and setToken(null)
LogoutSignOut(p) ==
  /\ calls[p].op = "logout" /\ calls[p].pc = "signOut"
  /\ authChecked
  /\ currentUser' = NoUid
  /\ user' = Null
  /\ token' = Null
  /\ loggedOut' = TRUE
  /\ calls' = [calls EXCEPT ![p].pc = "done"]
  /\ UNCHANGED <<accounts, cbPending, dbVars, listeners, snapPending, nCalls,
                 formVars, authChecked>>

Logout(p) == LogoutCall(p) \/ LogoutSignOut(p)

\* --------------------------------------------------------------- refreshUser
\* refreshUser up to the await of getIdToken(true) on the current user
RefreshCall(p) ==
  /\ Free(p)
  /\ nCalls < MaxCalls
  /\ nCalls' = nCalls + 1
  /\ calls' = [calls EXCEPT ![p] =
        IF currentUser # NoUid
        THEN [Idle EXCEPT !.op = "refreshUser", !.pc = "token", !.uid = currentUser]
        ELSE [Idle EXCEPT !.op = "refreshUser", !.pc = "done"]]
  /\ UNCHANGED <<vendorVars, cbPending, dbVars, listeners, snapPending, user, token,
                 formVars, authChecked, loggedOut>>

\* getIdToken resolves: setToken, then auth.currentUser.uid is read again
\* for the document reference
RefreshToken(p) ==
  /\ calls[p].op = "refreshUser" /\ calls[p].pc = "token"
  /\ token' = Some(IdToken(calls[p].uid))
  /\ calls' = IF currentUser # NoUid
              THEN [calls EXCEPT ![p].pc = "getDoc", ![p].uid = currentUser]
              ELSE [calls EXCEPT ![p].pc = "failed", ![p].error = Some(TypeError)]
  /\ UNCHANGED <<vendorVars, cbPending, dbVars, listeners, snapPending, user, nCalls,
                 formVars, authChecked, loggedOut>>

\* getDoc resolves: setUser with auth.currentUser.uid read once more
RefreshGetDoc(p) ==
  /\ calls[p].op = "refreshUser" /\ calls[p].pc = "getDoc"
  /\ IF calls[p].uid \in DOMAIN users
     THEN IF currentUser # NoUid
          THEN /\ user' = Some(UserOf(currentUser, users[calls[p].uid]))
               /\ calls' = [calls EXCEPT ![p].pc = "done"]
          ELSE /\ user' = user
               /\ calls' = [calls EXCEPT ![p].pc = "failed",
                                         ![p].error = Some(TypeError)]
     ELSE /\ user' = user
          /\ calls' = [calls EXCEPT ![p].pc = "done"]
  /\ UNCHANGED <<vendorVars, cbPending, dbVars, listeners, snapPending, token, nCalls,
                 formVars, authChecked, loggedOut>>

RefreshUser(p) == RefreshCall(p) \/ RefreshToken(p) \/ RefreshGetDoc(p)

\* ------------------------------------------- the onAuthStateChanged effect
\* the vendor has restored the session and the callback runs for the first
\* time: signed out, it clears user and token; signed in, it awaits getIdToken
AuthStateChanged ==
  /\ ~authChecked
  /\ authChecked' = TRUE
  /\ IF currentUser = NoUid
     THEN /\ user' = Null
          /\ token' = Null
          /\ cbPending' = cbPending
     ELSE /\ cbPending' = cbPending \cup {currentUser}
          /\ UNCHANGED <<user, token>>
  /\ UNCHANGED <<accounts, currentUser, dbVars, listeners, snapPending, calls, nCalls,
                 formVars, loggedOut>>

\* getIdToken resolves in the callback: setToken, and onSnapshot registers a
\* listener on the user's document, which is due its first snapshot
AuthTokenReady(uid) ==
  /\ uid \in cbPending
  /\ cbPending' = cbPending \ {uid}
  /\ token' = Some(IdToken(uid))
  /\ listeners' = listeners \cup {uid}
  /\ snapPending' = snapPending \cup {uid}
  /\ UNCHANGED <<vendorVars, dbVars, user, calls, nCalls, formVars, authChecked,
                 loggedOut>>

\* getIdToken rejects in the callback: its catch block
AuthTokenFails(uid) ==
  /\ uid \in cbPending
  /\ cbPending' = cbPending \ {uid}
  /\ token' = Null
  /\ user' = Null
  /\ UNCHANGED <<vendorVars, dbVars, listeners, snapPending, calls, nCalls, formVars,
                 authChecked, loggedOut>>

\* the onSnapshot callback runs
Snapshot(uid) ==
  /\ uid \in snapPending
  /\ snapPending' = snapPending \ {uid}
  /\ user' = IF uid \in DOMAIN users THEN Some(UserOf(uid, users[uid])) ELSE user
  /\ UNCHANGED <<vendorVars, cbPending, dbVars, listeners, token, calls, nCalls,
                 formVars, authChecked, loggedOut>>

AuthEffect ==
  \/ AuthStateChanged
  \/ \E uid \in UIDs : AuthTokenReady(uid)
  \/ \E uid \in UIDs : AuthTokenFails(uid)
  \/ \E uid \in UIDs : Snapshot(uid)

Next ==
  \/ \E p \in Procs : Register(p)
  \/ \E p \in Procs : Login(p)
  \/ \E p \in Procs : Logout(p)
  \/ \E p \in Procs : RefreshUser(p)
  \/ AuthEffect

Spec == Init /\ [][Next]_vars

\* register calls alone, in every interleaving, once the vendor is ready:
\* register reads and writes accounts and documents, which no other function
\* of the context writes
NextRegister ==
  \/ \E p \in Procs : Register(p)
  \/ AuthStateChanged

SpecRegister == Init /\ [][NextRegister]_vars

\* ==================================================================== claims

\* -- C1: no two documents of 'users' hold the same inviteCode, after any
\* sequence or interleaving of register calls.
InviteCodesUnique ==
  \A u, v \in DOMAIN users : u # v => users[u].inviteCode # users[v].inviteCode

\* the invites written for the account uid
InvitesTo(uid) == { i \in DOMAIN invites : invites[i].invitedId = uid }

\* -- C2: a register call that succeeded with an invite code has written
\* exactly one invite, from a user holding that code (upper-cased) to the new
\* account, level 1 and pending, and the same inviter as invitedBy; one that
\* succeeded without a code has written no invite and invitedBy = null.
RegisterInviteIffCode ==
  \A p \in Procs :
    (calls[p].op = "register" /\ calls[p].pc = "done") =>
      LET c == calls[p]
      IN /\ c.uid \in DOMAIN users
         /\ IF Truthy(c.inviteCode)
            THEN LET inviter == users[c.uid].invitedBy
                 IN /\ inviter \in DOMAIN users
                    /\ users[inviter].inviteCode = toUpperCase(c.inviteCode)
                    /\ Cardinality(InvitesTo(c.uid)) = 1
                    /\ \A i \in InvitesTo(c.uid) :
                         invites[i] = [inviterId |-> inviter, invitedId |-> c.uid,
                                       level |-> 1, status |-> "pending"]
            ELSE /\ InvitesTo(c.uid) = {}
                 /\ users[c.uid].invitedBy = NoUid

\* a registration through a code typed in lower case has completed
RegisteredWithCode ==
  \E p \in Procs :
    /\ calls[p].op = "register" /\ calls[p].pc = "done"
    /\ Truthy(calls[p].inviteCode)
    /\ toUpperCase(calls[p].inviteCode) # calls[p].inviteCode
    /\ InvitesTo(calls[p].uid) # {}

\* this step is a call of register, taking slot p
IsRegisterCall(p) ==
  /\ Free(p)
  /\ nCalls' = nCalls + 1
  /\ calls'[p].op = "register"

ClaimedMessage(code) ==
  CASE code = AuthCode("invalid-credential") -> "E-mail ou senha incorretos."
    [] code = AuthCode("wrong-password") -> "Senha incorreta."
    [] code = AuthCode("user-not-found") -> "Usuário não encontrado."
    [] code = AuthCode("too-many-requests") ->
         "Muitas tentativas falhas. Tente novamente mais tarde."
    [] OTHER -> "Erro ao fazer login"

\* -- C4: when the vendor's sign-in fails, the login form shows the message
\* of the vendor's code: invalid-credential, wrong-password, user-not-found
\* and too-many-requests have their own, every other failure the generic one.
SignInErrorsMapped ==
  [][\A p \in Procs :
       (calls[p].op = "login" /\ calls[p].pc = "signIn" /\ calls'[p].pc = "failed")
       => formError' = ClaimedMessage(calls'[p].rejected[1].code)]_vars

\* this step ends the register call in slot p with an error
RegisterFails(p) ==
  /\ calls'[p].op = "register"
  /\ calls'[p].pc = "failed"
  /\ calls'[p] # calls[p]

\* -- C5: when createUserWithEmailAndPassword fails with
\* auth/email-already-in-use, register throws 'Email já cadastrado' and has
\* written no user document and no invite; any other failure leaves register
\* as it was thrown.
RegisterErrorsMapped ==
  [][\A p \in Procs :
       RegisterFails(p) =>
         IF calls'[p].rejected[1].code = AuthCode("email-already-in-use")
         THEN /\ calls'[p].error = Some(NewError(EmailInUseMsg))
              /\ calls'[p].uid = NoUid
              /\ UNCHANGED <<users, invites>>
         ELSE calls'[p].error = calls'[p].rejected]_vars

\* a register call was refused because the e-mail is taken
EmailRefused ==
  \E p \in Procs :
    /\ calls[p].op = "register" /\ calls[p].pc = "failed"
    /\ calls[p].rejected = Some(VendorError("email-already-in-use"))
    /\ calls[p].error = Some(NewError(EmailInUseMsg))

\* -- C6: once a logout has completed, user and token are null until the
\* next login or register call, whatever callbacks were still pending; a
\* snapshot listener is registered only while a user is signed in.
LoggedOutStaysNull ==
  /\ loggedOut => (user = Null /\ token = Null)
  /\ listeners # {} => currentUser # NoUid

\* -- C7: until the first auth-state notification has been processed,
\* AppContent renders the loading screen, and never the login page to a user
\* whose session is about to be restored.
LoadingUntilAuthChecked ==
  ~authChecked => (Screen = "loading" /\ ~(currentUser # NoUid /\ Screen = "auth"))

\* -- C8: when not loading, the auth pages render exactly when user and token
\* are both null and the shell exactly when one of them is not; whenever the
\* shell renders, a vendor session is signed in.
GateMatchesSession ==
  /\ ~Truthy(ContextValue.loading) =>
       /\ (Screen = "auth") <=> (user = Null /\ token = Null)
       /\ (Screen = "shell") <=> (user # Null \/ token # Null)
  /\ (Screen = "shell") => currentUser # NoUid

\* -- C9: generateUniqueInviteCode draws again at most 10 times and asks at
\* most 11 times whether a code exists, so it returns even when every
\* candidate is taken: each evaluation of the loop either returns or uses up
\* one of the attempts.
GenerateBounded ==
  \A p \in Procs :
    /\ calls[p].attempts <= MaxAttempts
    /\ calls[p].queries <= MaxAttempts + 1
    /\ (calls[p].op = "register" /\ calls[p].pc = "gen") =>
          calls[p].queries = calls[p].attempts
    /\ (calls[p].op = "register" /\ calls[p].pc = "setDoc") =>
          calls[p].queries = calls[p].attempts + 1

\* the generator gave up: eleven queries, ten redraws, and the code it
\* returned is taken
GaveUpOnTakenCode ==
  \E p \in Procs :
    /\ calls[p].op = "register" /\ calls[p].pc = "setDoc"
    /\ calls[p].attempts = MaxAttempts
    /\ calls[p].queries = MaxAttempts + 1
    /\ checkInviteCodeExists(calls[p].code)

====
